---------------------------- MODULE Spec2Model ----------------------------
(***************************************************************************)
(* A model of the hybrid retrieval core of Edumate-ai:                     *)
(*   - DocumentProcessor.chunk_text            (document_processor.py)     *)
(*   - FAISSManager add / search / search_by_topic / save / load / clear   *)
(*                                             (faiss_manager.py)          *)
(*   - DocumentProcessor.process_file and scan_and_process_documents,      *)
(*     driven by the menu of upload_document.py.                           *)
(*                                                                         *)
(* Three specifications share the variables:                               *)
(*   SpecChunk  chunk_text as a pure function of (text, size, overlap);    *)
(*   SpecIndex  the vector index engine: add_document, search and          *)
(*              search_by_topic on a store built by add_document calls;    *)
(*   Spec       the ingestion pipeline over a small file system, with      *)
(*              persistence and process restart.                           *)
(*                                                                         *)
(* Text is a sequence of characters.  Characters of document text are      *)
(* naturals (SP is the whitespace character, every other number a          *)
(* non-blank character); characters of paths and topics are one-letter     *)
(* strings.  Similarities are hundredths (0.95 is 95).                     *)
(***************************************************************************)
EXTENDS Integers, Sequences, FiniteSets, TLC

VARIABLES
    cin,              \* SpecChunk: the arguments of the chunk_text call
    cout,             \* SpecChunk: what the call produced
    index,            \* FAISSManager.index: the stored vectors, in insertion order
    metadata,         \* FAISSManager.metadata
    documents,        \* FAISSManager.documents
    res,              \* the last operation and what it returned
    fs,               \* the file system: what every path of the model holds
    processed_files,  \* DocumentProcessor.processed_files: path -> fingerprint
    disk,             \* the artifacts under faiss_db
    pc,               \* where the program is
    cur,              \* the process_file call in progress
    scan,             \* the scan_and_process_documents call in progress
    calm,             \* what precedes, with no file changed since it began:
                      \* 1 a scan, 2 FAISSManager.clear_database, 3 the whole
                      \* clear_database of the document manager; 0 neither
    saved,            \* the store as of the last completed save_database
    budget            \* file changes, uploads, failing saves and watches still allowed

chunkVars == <<cin, cout>>
storeVars == <<index, metadata, documents>>
pipeVars  == <<fs, processed_files, disk, pc, cur, scan, calm, saved, budget>>
vars == <<cin, cout, index, metadata, documents, res,
          fs, processed_files, disk, pc, cur, scan, calm, saved, budget>>

Min(a, b) == IF a < b THEN a ELSE b

--------------------------------------------------------------------------
(* Bounds of the model *)

MaxTextLen == 5       \* SpecChunk: every text of at most this many characters
MaxWords   == 7       \* SpecChunk: texts of 0..MaxWords distinct words
MaxSize    == 4       \* SpecChunk: chunk_size in 1..MaxSize
MaxOverlap == 5       \* SpecChunk: overlap in 0..MaxOverlap
MaxStore   == 3       \* SpecIndex: add_document calls until the store holds this many
MaxTopK    == 3       \* SpecIndex: top_k in 1..MaxTopK
MaxFsChanges  == 1    \* Spec: changes of the file system after the start
MaxSingleAdds == 1    \* Spec: uploads of a single document
MaxSaveFailures == 2  \* SpecStorage: calls of save_database or clear_database that fail
MaxWatches == 2       \* SpecWatch: calls of monitor_folder

--------------------------------------------------------------------------
(* DocumentProcessor.chunk_text *)

SP == 0                      \* the whitespace character of document text
DefaultChunkSize == 500      \* chunk_text(..., chunk_size = 500, ...)
DefaultOverlap   == 50       \* chunk_text(..., overlap = 50)

\* The members of the set S of numbers within lo..hi, in increasing order
\* (by halving, so that long texts do not nest deeply).
RECURSIVE Ascending(_, _, _)
Ascending(S, lo, hi) ==
    IF lo > hi THEN <<>>
    ELSE IF lo = hi THEN (IF lo \in S THEN <<lo>> ELSE <<>>)
    ELSE LET mid == (lo + hi) \div 2
         IN  Ascending(S, lo, mid) \o Ascending(S, mid + 1, hi)

\* The maximal runs of characters other than sep, in order.
Runs(text, sep) ==
    LET n      == Len(text)
        starts == {i \in 1..n : text[i] # sep /\ (i = 1 \/ text[i - 1] = sep)}
        ends   == {i \in 1..n : text[i] # sep /\ (i = n \/ text[i + 1] = sep)}
        from   == Ascending(starts, 1, n)
        to     == Ascending(ends, 1, n)
    IN  [k \in 1..Len(from) |-> SubSeq(text, from[k], to[k])]

\* str.split(): the maximal runs of non-whitespace characters, in order.
split(text) == Runs(text, SP)

\* ' '.join(ws[lo..hi])
RECURSIVE JoinRange(_, _, _)
JoinRange(ws, lo, hi) ==
    IF lo > hi THEN <<>>
    ELSE IF lo = hi THEN ws[lo]
    ELSE LET mid == (lo + hi) \div 2
         IN  JoinRange(ws, lo, mid) \o <<SP>> \o JoinRange(ws, mid + 1, hi)

\* ' '.join(ws)
join(ws) == JoinRange(ws, 1, Len(ws))

\* str.strip(): without its leading and trailing whitespace.
strip(s) ==
    LET solid == {i \in 1..Len(s) : s[i] # SP}
    IN  IF solid = {} THEN <<>>
        ELSE LET lo == CHOOSE i \in solid : \A j \in solid : i <= j
                 hi == CHOOSE i \in solid : \A j \in solid : j <= i
             IN  SubSeq(s, lo, hi)

\* words[i:j] for 0 <= i and 0 <= j (0-based, j exclusive, clipped to the list).
pyslice(words, i, j) == SubSeq(words, i + 1, Min(j, Len(words)))

\* A step that ignores the overlap.
chunk_step_no_overlap(chunk_size, overlap) == chunk_size

\* The third argument of range(): chunk_size - overlap.
chunk_step(chunk_size, overlap) == chunk_size - overlap

\* for i in range(i, n, step) with step # 0: the body of chunk_text's loop.
\* A negative step makes range(0, n, step) empty.
RECURSIVE ChunkLoop(_, _, _, _, _)
ChunkLoop(words, i, chunk_size, step, chunks) ==
    IF step < 0 \/ i >= Len(words) THEN chunks
    ELSE LET chunk == join(pyslice(words, i, i + chunk_size))
         IN  ChunkLoop(words, i + step, chunk_size, step,
                       IF strip(chunk) # <<>> THEN Append(chunks, strip(chunk))
                                             ELSE chunks)

\* chunk_text(text, chunk_size, overlap): raised is the ValueError of
\* range() with a zero step; chunks is the returned list otherwise.
chunk_text(text, chunk_size, overlap) ==
    IF text = <<>> THEN [raised |-> FALSE, chunks |-> <<>>]
    ELSE LET words == split(text)
             step  == chunk_step(chunk_size, overlap)
         IN  IF step = 0
             THEN [raised |-> TRUE, chunks |-> <<>>]
             ELSE [raised |-> FALSE,
                   chunks |-> ChunkLoop(words, 0, chunk_size, step, <<>>)]

--------------------------------------------------------------------------
(* The state of the ingestion pipeline when nothing of it runs *)

\* An artifact of the store on disk: absent, written whole (GoodFile), or
\* left unreadable by a write that stopped half-way (CorruptFile).
NoFile == [exists |-> FALSE, corrupt |-> FALSE, data |-> <<>>]
GoodFile(d) == [exists |-> TRUE, corrupt |-> FALSE, data |-> d]
CorruptFile == [exists |-> TRUE, corrupt |-> TRUE, data |-> <<>>]
NoRegistryFile == [exists |-> FALSE, data |-> {}]
EmptyDisk ==
    [index |-> NoFile, metadata |-> NoFile, documents |-> NoFile,
     registry |-> NoRegistryFile]
NoCur  == [path |-> <<>>, caller |-> "none", src |-> "none", n |-> 0, i |-> 0,
           failed |-> 0, known |-> FALSE,
           base |-> [index |-> <<>>, metadata |-> <<>>, documents |-> <<>>]]
NoScan == [todo |-> {}, count |-> 0, invoked |-> {}, errored |-> {}, base |-> 0,
           disk |-> EmptyDisk]
NoSave == [valid |-> FALSE,
           store |-> [index |-> <<>>, metadata |-> <<>>, documents |-> <<>>]]

\* SpecChunk and SpecIndex leave the pipeline alone.
PipeIdle ==
    /\ fs = <<>>
    /\ processed_files = <<>>
    /\ disk = EmptyDisk
    /\ pc = "menu"
    /\ cur = NoCur
    /\ scan = NoScan
    /\ calm = 0
    /\ saved = NoSave
    /\ budget = [fs |-> 0, single |-> 0, save |-> 0, watch |-> 0]

--------------------------------------------------------------------------
(* SpecChunk: the inputs of chunk_text *)

NotYet == [done |-> FALSE, raised |-> FALSE, chunks |-> <<>>]
NoCall == [text |-> <<>>, size |-> 0, overlap |-> 0]
NoRes  == [op |-> "none"]

\* n distinct one-character words 1..n separated by single blanks.
NumText(n) ==
    IF n = 0 THEN <<>>
    ELSE [i \in 1..(2 * n - 1) |-> IF i % 2 = 1 THEN (i + 1) \div 2 ELSE SP]

RECURSIVE TextsOfLen(_)
TextsOfLen(n) ==
    IF n = 0 THEN {<<>>}
    ELSE {Append(t, c) : t \in TextsOfLen(n - 1), c \in {SP, 1, 2}}

SmallTexts == UNION {TextsOfLen(n) : n \in 0..MaxTextLen}

ChunkInputs ==
    [text : SmallTexts \cup {NumText(n) : n \in 0..MaxWords},
     size : 1..MaxSize, overlap : 0..MaxOverlap]
    \cup [text : {NumText(DefaultChunkSize),
                  NumText(DefaultChunkSize + DefaultOverlap)},
          size : {DefaultChunkSize}, overlap : {DefaultOverlap}]

ChunkCall ==
    /\ ~cout.done
    /\ cout' = [done |-> TRUE] @@ chunk_text(cin.text, cin.size, cin.overlap)
    /\ UNCHANGED <<cin, index, metadata, documents, res, pipeVars>>

InitChunk ==
    /\ cin \in ChunkInputs
    /\ cout = NotYet
    /\ index = <<>>
    /\ metadata = <<>>
    /\ documents = <<>>
    /\ res = NoRes
    /\ PipeIdle

NextChunk == ChunkCall

SpecChunk == InitChunk /\ [][NextChunk]_vars

--------------------------------------------------------------------------
(* Claims about chunk_text, under SpecChunk *)

\* The windows the text's words fall into: window k (from 1) holds the words
\* (k-1)*(size-overlap)+1 .. min(n, (k-1)*(size-overlap)+size), one window
\* for every k with (k-1)*(size-overlap) < n.
ExpectedWindows(words, size, overlap) ==
    LET n    == Len(words)
        step == size - overlap
    IN  [k \in 1..((n + step - 1) \div step) |->
            join(SubSeq(words, (k - 1) * step + 1,
                        Min(n, (k - 1) * step + size)))]

\* C3: with 0 < overlap < size, a text of exactly `size` words yields exactly
\* one chunk.
C3_ExactSizeOneChunk ==
    (/\ cout.done
     /\ 0 < cin.overlap /\ cin.overlap < cin.size
     /\ Len(split(cin.text)) = cin.size)
    => Len(cout.chunks) = 1

\* C4: for overlap < size, chunk_text returns, in increasing k, exactly the
\* windows words[k*(size-overlap) .. min(n, k*(size-overlap)+size)-1] for every
\* k with k*(size-overlap) < n; 550 words with size 500 and overlap 50 give
\* two chunks, the second starting at word 450 (0-based).
C4_ChunkWindows ==
    (cout.done /\ cin.overlap < cin.size)
    => /\ ~cout.raised
       /\ cout.chunks = ExpectedWindows(split(cin.text), cin.size, cin.overlap)
       /\ (/\ cin.text = NumText(DefaultChunkSize + DefaultOverlap)
           /\ cin.size = DefaultChunkSize /\ cin.overlap = DefaultOverlap)
          => /\ Len(cout.chunks) = 2
             /\ cout.chunks[2][1] = DefaultChunkSize - DefaultOverlap + 1

\* The 550-word text has been chunked with the default size and overlap, and
\* a short text has been cut into a full window and a partial last window.
C4_Witness ==
    /\ cout.done
    /\ cin.text = NumText(DefaultChunkSize + DefaultOverlap)
    /\ Len(cout.chunks) = 2
    /\ Len(split(cout.chunks[2])) = 2 * DefaultOverlap

\* C5: with overlap >= size a call on a non-empty text fails (raises) instead
\* of returning a list of chunks.
C5_OverlapGeSizeRaises ==
    (cout.done /\ cin.overlap >= cin.size /\ cin.text # <<>>) => cout.raised

--------------------------------------------------------------------------
(* DocumentProcessor.extract_metadata_from_path *)

\* str.lower() on the letters the model uses.
LowerChar(c) ==
    CASE c = "A" -> "a"
      [] c = "B" -> "b"
      [] c = "G" -> "g"
      [] OTHER   -> c

lower(s) == [i \in 1..Len(s) |-> LowerChar(s[i])]

\* s.replace('_', ' ')
replace_underscore(s) == [i \in 1..Len(s) |-> IF s[i] = "_" THEN " " ELSE s[i]]

\* a in b, for strings: a is a substring of b.
Contains(b, a) ==
    \E i \in 0..(Len(b) - Len(a)) : SubSeq(b, i + 1, i + Len(a)) = a

\* s.endswith(suffix)
endswith(s, suffix) ==
    /\ Len(suffix) <= Len(s)
    /\ SubSeq(s, Len(s) - Len(suffix) + 1, Len(s)) = suffix

\* Path(file_path).parts: the segments between the separators, after the
\* root "/" of an absolute path.
parts(file_path) ==
    (IF file_path # <<>> /\ file_path[1] = "/" THEN << <<"/">> >> ELSE <<>>)
    \o Runs(file_path, "/")

\* Path.stem: the file name without its last suffix; a name whose only dot is
\* its first or last character has no suffix.
stem(name) ==
    LET dots == {i \in 1..Len(name) : name[i] = "."}
    IN  IF dots = {} THEN name
        ELSE LET i == CHOOSE d \in dots : \A e \in dots : e <= d
             IN  IF 1 < i /\ i < Len(name) THEN SubSeq(name, 1, i - 1) ELSE name

\* hashlib.md5(file_path.encode()).hexdigest()[:8]: a function of the path
\* alone; distinct paths of the model get distinct ids.
md5_8(file_path) == <<"#">> \o file_path

documents_dir == <<"d", "o", "c", "u", "m", "e", "n", "t", "s">>
General       == <<"G", "e", "n", "e", "r", "a", "l">>
dot_pdf       == <<".", "p", "d", "f">>
dot_docx      == <<".", "d", "o", "c", "x">>

extract_metadata_from_path(file_path) ==
    LET ps    == parts(file_path)
        found == {i \in 1..Len(ps) : ps[i] = documents_dir}
        \* documents_idx, 1-based; 0 when no part is 'documents'
        didx  == IF found = {} THEN 0
                 ELSE CHOOSE i \in found : \A j \in found : i <= j
    IN  [id        |-> md5_8(file_path),
         file_path |-> file_path,
         title     |-> stem(ps[Len(ps)]),
         course    |-> IF didx # 0 /\ Len(ps) > didx
                       THEN replace_underscore(ps[didx + 1]) ELSE General,
         chapter   |-> IF didx # 0 /\ Len(ps) > didx + 1
                       THEN replace_underscore(ps[didx + 2]) ELSE General,
         topics    |-> IF didx # 0
                       THEN [k \in 1..(Len(ps) - 1 - didx) |->
                                replace_underscore(ps[didx + k])]
                       ELSE <<>>]

\* chunk_metadata that numbers every chunk 0.
chunk_metadata_unnumbered(md, i, total) ==
    [id |-> md.id, file_path |-> md.file_path, title |-> md.title,
     course |-> md.course, chapter |-> md.chapter, topics |-> md.topics,
     chunk_id |-> 0, total_chunks |-> total]

\* chunk_metadata = metadata.copy() with chunk_id and total_chunks
\* (process_file); chunk_id is 0-based.
chunk_metadata(md, i, total) ==
    [id |-> md.id, file_path |-> md.file_path, title |-> md.title,
     course |-> md.course, chapter |-> md.chapter, topics |-> md.topics,
     chunk_id |-> i, total_chunks |-> total]

\* The files of the model.
\*   PathA  documents/A_b/c/x.pdf   topics "A b", "c"; title "x"
\*   PathB  documents/b.pdf         directly under the root; title "b"
\*   PathC  e/y.docx                outside the documents folder; title "y"
PathA == documents_dir \o <<"/", "A", "_", "b", "/", "c", "/", "x">> \o dot_pdf
PathB == documents_dir \o <<"/", "b">> \o dot_pdf
PathC == <<"e", "/", "y">> \o dot_docx

Paths == {PathA, PathB, PathC}

--------------------------------------------------------------------------
(* FAISSManager: the embedding provider and the flat inner-product index *)

\* The queries of the model: "B" is contained (case-insensitively) in a topic
\* of PathA and in the title of PathB; "z" is contained in nothing.
Topics == {<<"B">>, <<"z">>}

\* Similarities in hundredths: below the 0.6 threshold, at it, above 0.95.
Scores == {59, 60, 97}

MetadataScore    == 95     \* 'similarity': 0.95 of a metadata match
TopicThreshold   == 60     \* similarity_threshold = 0.6 in search_by_topic
DefaultThreshold == 70     \* similarity_threshold = 0.7, search's default
PadScore         == -1000  \* the score FAISS pads a short result with (-3.4e38)

\* A normalized embedding is known to the model by its inner product with the
\* (normalized) embedding of every query.  The encoder is an external black
\* box: encoding a text either fails or yields any vector.  Every call of
\* search consults one query only, so the model takes the vectors that score
\* the same against both queries: the queries differ in the metadata they
\* match, and every profile of scores over the store occurs for each of them.
Vectors == {[q \in Topics |-> s] : s \in Scores}

EmbedOutcomes ==
    {[ok |-> TRUE, vec |-> v] : v \in Vectors}
    \cup {[ok |-> FALSE, vec |-> [q \in Topics |-> 59]]}

Store == [index |-> index, metadata |-> metadata, documents |-> documents]
EmptyStore == [index |-> <<>>, metadata |-> <<>>, documents |-> <<>>]

\* add_document in which the vector is already in the index when the failure
\* is caught.
add_document_partial(store, content, md, emb) ==
    IF emb.ok
    THEN [index     |-> Append(store.index, emb.vec),
          metadata  |-> Append(store.metadata, md),
          documents |-> Append(store.documents, content)]
    ELSE [store EXCEPT !.index = Append(store.index, emb.vec)]

\* add_document that first drops the entries the store holds for the same
\* chunk of the same file.
add_document_replacing(store, content, md, emb) ==
    LET n    == Len(store.metadata)
        keep == Ascending({i \in 1..n :
                              \/ store.metadata[i].file_path # md.file_path
                              \/ store.metadata[i].chunk_id # md.chunk_id}, 1, n)
    IN  IF emb.ok
        THEN [index     |-> Append([k \in 1..Len(keep) |-> store.index[keep[k]]], emb.vec),
              metadata  |-> Append([k \in 1..Len(keep) |-> store.metadata[keep[k]]], md),
              documents |-> Append([k \in 1..Len(keep) |-> store.documents[keep[k]]], content)]
        ELSE store

\* FAISSManager.add_document(content, metadata): emb is what
\* self.encoder.encode produced.  A failure is caught inside add_document
\* before anything is appended; nothing is reported to the caller.
add_document(store, content, md, emb) ==
    IF emb.ok
    THEN [index     |-> Append(store.index, emb.vec),
          metadata  |-> Append(store.metadata, md),
          documents |-> Append(store.documents, content)]
    ELSE store

\* The inner product of the query with the stored vector at position i (1-based).
ScoreAt(idx, query, i) == idx[i][query]

\* index.search(query, k) of a flat index (IndexFlatIP): FAISS scans the
\* vectors in insertion order and keeps the k best in a heap, replacing the
\* worst kept only by a strictly better one; so the min(k, ntotal) positions
\* taken are the best by (score, earlier first).  They come back in
\* non-increasing score; the order of equal scores is the heap's, which the
\* library does not define.
FaissSearches(idx, query, k) ==
    LET n == Len(idx)
        m == Min(k, n)
        ahead(i) == Cardinality({j \in 1..n :
                        \/ ScoreAt(idx, query, j) > ScoreAt(idx, query, i)
                        \/ (ScoreAt(idx, query, j) = ScoreAt(idx, query, i) /\ j < i)})
        taken == {i \in 1..n : ahead(i) < m}
    IN  {r \in [1..m -> taken] :
            /\ \A a, b \in 1..m : a < b => r[a] # r[b]
            /\ \A a, b \in 1..m :
                  a < b => ScoreAt(idx, query, r[a]) >= ScoreAt(idx, query, r[b])}

\* scores[0], indices[0]: the result r padded to k entries with index -1.
\* Positions are 0-based as in the code.
FaissRows(idx, query, k, r) ==
    [a \in 1..k |->
        IF a <= Len(r)
        THEN [score |-> ScoreAt(idx, query, r[a]), idx |-> r[a] - 1]
        ELSE [score |-> PadScore, idx |-> -1]]

\* The filter of search() without the threshold.
passes_no_threshold(row, store, threshold) == row.idx < Len(store.metadata)

\* The filter of search(): score >= similarity_threshold and idx < len(metadata).
passes(row, store, threshold) ==
    row.score >= threshold /\ row.idx < Len(store.metadata)

\* The rows of the loop of search() that pass its filter, in order.
RECURSIVE KeptRows(_, _, _, _)
KeptRows(rows, store, threshold, acc) ==
    IF rows = <<>> THEN acc
    ELSE KeptRows(Tail(rows), store, threshold,
                  IF passes(Head(rows), store, threshold)
                  THEN Append(acc, Head(rows)) ELSE acc)

\* seq[i] of Python for a 0-based i that may be negative (from the end).
PyValid(seq, i) == -Len(seq) <= i /\ i < Len(seq)
PyPos(seq, i) == IF i >= 0 THEN i + 1 ELSE Len(seq) + i + 1

\* FAISSManager.search(query, top_k, similarity_threshold) when FAISS returns
\* r.  An IndexError reaches the except clause, which returns [].
\* pos (the 1-based position of the entry) is not part of the code's result;
\* it is kept to state claims about insertion order.
search(store, query, top_k, threshold, r) ==
    IF Len(store.index) = 0 THEN <<>>
    ELSE LET rows == FaissRows(store.index, query, top_k, r)
             kept == KeptRows(rows, store, threshold, <<>>)
         IN  IF \E a \in 1..Len(kept) :
                    \/ ~PyValid(store.documents, kept[a].idx)
                    \/ ~PyValid(store.metadata, kept[a].idx)
             THEN <<>>
             ELSE [a \in 1..Len(kept) |->
                     [content    |-> store.documents[PyPos(store.documents, kept[a].idx)],
                      metadata   |-> store.metadata[PyPos(store.metadata, kept[a].idx)],
                      similarity |-> kept[a].score,
                      pos        |-> PyPos(store.metadata, kept[a].idx)]]

--------------------------------------------------------------------------
(* FAISSManager.search_by_topic *)

\* topic.lower() in title or any(topic.lower() in tag.lower() for tag in topic_tags)
\* for the entry at position i (1-based).
metadata_hit(store, topic, i) ==
    \/ Contains(lower(store.metadata[i].title), lower(topic))
    \/ \E t \in 1..Len(store.metadata[i].topics) :
          Contains(lower(store.metadata[i].topics[t]), lower(topic))

\* sorted(all_matches, key = similarity, reverse = True): stable, so equal
\* similarities keep their order.
RECURSIVE SortedDesc(_, _)
SortedDesc(ms, acc) ==
    IF ms = <<>> THEN acc
    ELSE LET m     == Head(ms)
             ahead == {a \in 1..Len(acc) : acc[a].similarity >= m.similarity}
             k     == Cardinality(ahead)
         IN  SortedDesc(Tail(ms),
                        SubSeq(acc, 1, k) \o <<m>> \o SubSeq(acc, k + 1, Len(acc)))

\* The loop over the sorted matches: the first match of every id.
RECURSIVE UniqueById(_, _)
UniqueById(ms, acc) ==
    IF ms = <<>> THEN acc
    ELSE UniqueById(Tail(ms),
                    IF \E a \in 1..Len(acc) : acc[a].metadata.id = Head(ms).metadata.id
                    THEN acc ELSE Append(acc, Head(ms)))

\* A cut that keeps the whole list.
first_k_all(ms, top_k) == ms

\* unique_matches[:top_k]
first_k(ms, top_k) == SubSeq(ms, 1, Min(top_k, Len(ms)))

EmptyTopicResult ==
    [matches |-> <<>>, total_found |-> 0, has_exact_match |-> FALSE,
     content_matches |-> <<>>, unique_matches |-> <<>>]

\* search_by_topic(topic, top_k) when FAISS returns r.  matches, total_found
\* and has_exact_match are the returned dictionary; content_matches and
\* unique_matches are the locals of the same names.
search_by_topic(store, topic, top_k, r) ==
    LET n    == Len(store.metadata)
        hits == Ascending({i \in 1..n : metadata_hit(store, topic, i)}, 1, n)
    IN  IF \E k \in 1..Len(hits) : hits[k] > Len(store.documents)
        THEN EmptyTopicResult       \* IndexError, caught: the empty answer
        ELSE
        LET metadata_matches ==
                [k \in 1..Len(hits) |->
                    [content    |-> store.documents[hits[k]],
                     metadata   |-> store.metadata[hits[k]],
                     similarity |-> MetadataScore,
                     match_type |-> "metadata",
                     pos        |-> hits[k]]]
            found == search(store, topic, top_k, TopicThreshold, r)
            content_matches ==
                [k \in 1..Len(found) |->
                    [content    |-> found[k].content,
                     metadata   |-> found[k].metadata,
                     similarity |-> found[k].similarity,
                     match_type |-> "content",
                     pos        |-> found[k].pos]]
            unique_matches ==
                UniqueById(SortedDesc(metadata_matches \o content_matches, <<>>), <<>>)
        IN  [matches         |-> first_k(unique_matches, top_k),
             total_found     |-> Len(unique_matches),
             has_exact_match |-> Len(metadata_matches) > 0,
             content_matches |-> content_matches,
             unique_matches  |-> unique_matches]

--------------------------------------------------------------------------
(* SpecIndex: the vector index engine under add_document, search and
   search_by_topic calls *)

\* What add_document is called with: the chunk of a one-chunk file.
IndexInputs ==
    {[content |-> <<1>>,        md |-> chunk_metadata(extract_metadata_from_path(PathA), 0, 1)],
     [content |-> <<2>>,        md |-> chunk_metadata(extract_metadata_from_path(PathB), 0, 1)],
     [content |-> <<1, SP, 2>>, md |-> chunk_metadata(extract_metadata_from_path(PathC), 0, 1)]}

Lens(store) == <<Len(store.index), Len(store.metadata), Len(store.documents)>>

\* The caller has taken the result of the last call; the next call follows.
Return ==
    /\ res.op # "none"
    /\ res' = NoRes
    /\ UNCHANGED <<chunkVars, storeVars, pipeVars>>

AddDocument ==
    /\ res.op = "none"
    /\ Len(index) < MaxStore
    /\ \E inp \in IndexInputs, emb \in EmbedOutcomes :
        /\ LET new == add_document(Store, inp.content, inp.md, emb)
           IN  /\ index' = new.index
               /\ metadata' = new.metadata
               /\ documents' = new.documents
        /\ res' = [op |-> "add", ok |-> emb.ok, before |-> Lens(Store)]
        /\ UNCHANGED <<chunkVars, pipeVars>>

SearchCall ==
    /\ res.op = "none"
    /\ \E q \in Topics, k \in 1..MaxTopK, th \in {TopicThreshold, DefaultThreshold} :
       \E r \in FaissSearches(index, q, k) :
        /\ res' = [op |-> "search", query |-> q, top_k |-> k, threshold |-> th,
                   hits |-> search(Store, q, k, th, r)]
        /\ UNCHANGED <<chunkVars, storeVars, pipeVars>>

SearchByTopicCall ==
    /\ res.op = "none"
    /\ \E q \in Topics, k \in 1..MaxTopK :
       \E r \in FaissSearches(index, q, k) :
        /\ res' = [op |-> "search_by_topic", query |-> q, top_k |-> k,
                   out |-> search_by_topic(Store, q, k, r)]
        /\ UNCHANGED <<chunkVars, storeVars, pipeVars>>

InitIndex ==
    /\ cin = NoCall
    /\ cout = NotYet
    /\ index = <<>>
    /\ metadata = <<>>
    /\ documents = <<>>
    /\ res = NoRes
    /\ PipeIdle

NextIndex == AddDocument \/ SearchCall \/ SearchByTopicCall \/ Return

SpecIndex == InitIndex /\ [][NextIndex]_vars

--------------------------------------------------------------------------
(* Claims about the vector index engine, under SpecIndex *)

\* C1: after every add_document call the numbers of stored vectors, texts and
\* metadata records are equal; a call whose embedding fails appends to none of
\* the three, a call whose embedding succeeds appends one entry to each.
C1_AddKeepsAligned ==
    /\ Len(index) = Len(metadata)
    /\ Len(metadata) = Len(documents)
    /\ res.op = "add"
       => Lens(Store) = IF res.ok
                        THEN <<res.before[1] + 1, res.before[2] + 1, res.before[3] + 1>>
                        ELSE res.before

\* An add_document call whose embedding failed, on a store that holds entries.
C1_Witness ==
    /\ res.op = "add"
    /\ ~res.ok
    /\ Len(index) >= 1

\* The ids for which the call had both a metadata match and a content match.
BothMatched(out) ==
    {out.content_matches[c].metadata.id : c \in
        {c \in 1..Len(out.content_matches) :
            \E i \in 1..Len(metadata) :
                /\ metadata_hit(Store, res.query, i)
                /\ metadata[i].id = out.content_matches[c].metadata.id}}

\* C2: when the metadata pass and the semantic pass of search_by_topic both
\* match the same file-level id, the merged list holds exactly one entry of
\* that id, a metadata match of similarity 0.95, whatever the similarity
\* (0.6 to 1.0) of the content match.
C2_DedupKeepsMetadata ==
    res.op = "search_by_topic"
    => \A id \in BothMatched(res.out) :
          LET of_id == {u \in 1..Len(res.out.unique_matches) :
                           res.out.unique_matches[u].metadata.id = id}
          IN  /\ Cardinality(of_id) = 1
              /\ \A u \in of_id :
                    /\ res.out.unique_matches[u].match_type = "metadata"
                    /\ res.out.unique_matches[u].similarity = MetadataScore

\* The positions whose entry matches the topic by title or topics and is the
\* first such entry of its id, in insertion order.
FirstMetadataHits(query) ==
    LET n == Len(metadata)
    IN  Ascending({i \in 1..n :
                      /\ metadata_hit(Store, query, i)
                      /\ \A j \in 1..(i - 1) :
                            ~(metadata_hit(Store, query, j)
                              /\ metadata[j].id = metadata[i].id)},
                  1, n)

\* C8: the 0.6 threshold applies to the semantic pass only.  When every stored
\* vector scores below 0.6 against the topic, the content-match list is empty
\* and the answer is the metadata matches: the first entry of every id whose
\* title or topics contain the topic, in insertion order, cut to top_k, each
\* with similarity 0.95.
C8_ThresholdOnlySemantic ==
    (/\ res.op = "search_by_topic"
     /\ \A i \in 1..Len(index) : ScoreAt(index, res.query, i) < TopicThreshold)
    => LET want == FirstMetadataHits(res.query)
           got  == res.out.matches
       IN  /\ res.out.content_matches = <<>>
           /\ Len(got) = Min(res.top_k, Len(want))
           /\ res.out.total_found = Len(want)
           /\ \A a \in 1..Len(got) :
                 /\ got[a].pos = want[a]
                 /\ got[a].match_type = "metadata"
                 /\ got[a].similarity = MetadataScore
                 /\ got[a].metadata = metadata[want[a]]
                 /\ got[a].content = documents[want[a]]

\* A topic search on a store whose every vector scores below the threshold
\* that still returned two metadata matches.
C8_Witness ==
    /\ res.op = "search_by_topic"
    /\ Len(index) >= 2
    /\ \A i \in 1..Len(index) : ScoreAt(index, res.query, i) < TopicThreshold
    /\ Len(res.out.matches) = 2

\* The positions scoring at least the threshold, best first, equal scores in
\* insertion order.
RankedAbove(query, threshold) ==
    LET qual    == {i \in 1..Len(index) : ScoreAt(index, query, i) >= threshold}
        rank(i) == Cardinality({j \in qual :
                       \/ ScoreAt(index, query, j) > ScoreAt(index, query, i)
                       \/ (ScoreAt(index, query, j) = ScoreAt(index, query, i) /\ j < i)})
    IN  [a \in 1..Cardinality(qual) |-> CHOOSE i \in qual : rank(i) = a - 1]

\* C9: search returns exactly the min(top_k, m) best of the m entries scoring
\* at least the threshold, in descending similarity with equal similarities in
\* ascending insertion position; fewer than top_k when fewer qualify (none on
\* an empty index), never an invalid position.
C9_SearchTopKOrdered ==
    res.op = "search"
    => LET want == RankedAbove(res.query, res.threshold)
       IN  /\ Len(res.hits) = Min(res.top_k, Len(want))
           /\ \A a \in 1..Len(res.hits) :
                 /\ res.hits[a].pos = want[a]
                 /\ res.hits[a].similarity = ScoreAt(index, res.query, want[a])
                 /\ res.hits[a].metadata = metadata[want[a]]
                 /\ res.hits[a].content = documents[want[a]]

\* What search does guarantee (C9 without the order of equal similarities):
\* min(top_k, m) distinct valid entries, all at or above the threshold, in
\* non-increasing similarity, none worse than an entry left out.
SearchTopKAboveThreshold ==
    res.op = "search"
    => LET want == RankedAbove(res.query, res.threshold)
           h    == res.hits
       IN  /\ Len(h) = Min(res.top_k, Len(want))
           /\ \A a \in 1..Len(h) :
                 /\ h[a].pos \in 1..Len(index)
                 /\ h[a].similarity = ScoreAt(index, res.query, h[a].pos)
                 /\ h[a].similarity >= res.threshold
                 /\ h[a].similarity = ScoreAt(index, res.query, want[a])
                 /\ h[a].metadata = metadata[h[a].pos]
                 /\ h[a].content = documents[h[a].pos]
           /\ \A a, b \in 1..Len(h) : a < b => h[a].pos # h[b].pos

--------------------------------------------------------------------------
(* The ingestion pipeline: files, fingerprints and the saved artifacts *)

\* What a path holds: nothing, or a file with one of three contents.
\*   "bad"  a file no text can be extracted from
\*   "one"  a short text: one chunk
\*   "two"  a text one word longer than the stride: two chunks
Absent == "absent"
Contents == {"bad", "one", "two"}
FileStates == {Absent} \cup Contents

\* What the PDF or DOCX library reads out of the file, before .strip().
RawText(c) ==
    CASE c = "one" -> <<SP>> \o NumText(3) \o <<SP>>
      [] c = "two" -> NumText(DefaultChunkSize - DefaultOverlap + 1)
      [] OTHER     -> <<>>

\* extract_text_from_pdf / extract_text_from_docx: text.strip(), or "" when
\* the file cannot be opened or read.
extract_text(c) == IF c = Absent THEN <<>> ELSE strip(RawText(c))

\* The text process_file gets for every content, and chunk_text(text) of it.
TextOf == [c \in FileStates |-> extract_text(c)]
ChunksOf ==
    [c \in FileStates |->
        chunk_text(TextOf[c], DefaultChunkSize, DefaultOverlap).chunks]

\* A chunk handed to add_document is named by the content it was cut from and
\* its 0-based position; ChunkChars gives its characters.
ChunkRef(c, i) == [src |-> c, k |-> i]
ChunkChars(ref) == ChunksOf[ref.src][ref.k + 1]

\* hashlib.md5(f.read()).hexdigest(): a function of the content, distinct
\* for distinct contents; "" when the file cannot be read.
get_file_hash(files, f) ==
    CASE files[f] = "bad" -> <<"0">>
      [] files[f] = "one" -> <<"1">>
      [] files[f] = "two" -> <<"2">>
      [] OTHER            -> <<>>

\* self.encoder.encode([content]) is a function of the text: one vector for
\* each chunk of the model.  Whether the call fails is not.
ChunkVector(ref) ==
    [q \in Topics |->
        CASE ref.src = "one" -> 97
          [] ref.k = 0       -> 60
          [] OTHER           -> 59]
ChunkEmbedOutcomes(ref) ==
    {[ok |-> TRUE, vec |-> ChunkVector(ref)],
     [ok |-> FALSE, vec |-> ChunkVector(ref)]}

\* os.walk(documents_folder) with the filter on the file name: the existing
\* files under 'documents' that end in .pdf or .docx.
is_under_documents(f) ==
    /\ Len(f) > Len(documents_dir)
    /\ SubSeq(f, 1, Len(documents_dir) + 1) = documents_dir \o <<"/">>
supported(f) == endswith(lower(f), dot_pdf) \/ endswith(lower(f), dot_docx)
walk(files) ==
    {f \in DOMAIN files :
        files[f] # Absent /\ is_under_documents(f) /\ supported(f)}

\* os.walk is top-down: the files of a folder are listed before the files of
\* the folders below it.  The files of todo that can come next.
dirname(f) ==
    LET at == {i \in 1..Len(f) : f[i] = "/"}
    IN  IF at = {} THEN <<>>
        ELSE SubSeq(f, 1, CHOOSE i \in at : \A j \in at : j <= i)
walk_next(todo) ==
    {f \in todo :
        \A g \in todo :
            ~(/\ Len(dirname(g)) < Len(dirname(f))
              /\ SubSeq(dirname(f), 1, Len(dirname(g))) = dirname(g))}

\* The test of scan_and_process_documents in which every file is new.
needs_processing_always(reg, f, file_hash) == TRUE

\* file_path not in self.processed_files or
\* self.processed_files[file_path] != file_hash
needs_processing(reg, f, file_hash) ==
    f \notin DOMAIN reg \/ reg[f] # file_hash

\* self.processed_files[file_path] = file_hash
register(reg, f, file_hash) ==
    [p \in DOMAIN reg \cup {f} |-> IF p = f THEN file_hash ELSE reg[p]]

\* save_processed_files that writes nothing.
save_processed_files_nothing(reg, dsk) == dsk

\* save_processed_files: one line "path|hash" for every entry.
registry_line(f, file_hash) == f \o <<"|">> \o file_hash
save_processed_files(reg, dsk) ==
    [dsk EXCEPT !.registry =
        [exists |-> TRUE,
         data   |-> {registry_line(f, reg[f]) : f \in DOMAIN reg}]]

\* load_processed_files: every line with a '|' is split at the first one.
bar(line) ==
    LET at == {i \in 1..Len(line) : line[i] = "|"}
    IN  IF at = {} THEN 0 ELSE CHOOSE i \in at : \A j \in at : i <= j
load_processed_files(dsk) ==
    LET lines == {l \in dsk.registry.data : bar(l) # 0}
        key(l) == SubSeq(l, 1, bar(l) - 1)
    IN  IF ~dsk.registry.exists THEN <<>>
        ELSE [f \in {key(l) : l \in lines} |->
                LET l == CHOOSE m \in lines : key(m) = f
                IN  SubSeq(l, bar(l) + 1, Len(l))]

\* save_database that writes the index and the metadata only.
save_database_no_documents(store, dsk) ==
    [dsk EXCEPT !.index    = GoodFile(store.index),
                !.metadata = GoodFile(store.metadata)]

\* FAISSManager.save_database: faiss.write_index, then the two pickles.
save_database(store, dsk) ==
    [dsk EXCEPT !.index     = GoodFile(store.index),
                !.metadata  = GoodFile(store.metadata),
                !.documents = GoodFile(store.documents)]

\* The places where save_database can raise: opening an artifact for
\* writing (the artifact keeps what it held) or writing it (the artifact is
\* left truncated).  The artifacts written before that place are new, the
\* ones after it are untouched.
SaveFailures ==
    {"index_open", "index_write", "metadata_open", "metadata_write",
     "documents_open", "documents_write"}
save_database_failing(store, dsk, point) ==
    CASE point = "index_open"      -> dsk
      [] point = "index_write"     -> [dsk EXCEPT !.index = CorruptFile]
      [] point = "metadata_open"   -> [dsk EXCEPT !.index = GoodFile(store.index)]
      [] point = "metadata_write"  -> [dsk EXCEPT !.index = GoodFile(store.index),
                                                  !.metadata = CorruptFile]
      [] point = "documents_open"  -> [dsk EXCEPT !.index = GoodFile(store.index),
                                                  !.metadata = GoodFile(store.metadata)]
      [] point = "documents_write" -> [dsk EXCEPT !.index = GoodFile(store.index),
                                                  !.metadata = GoodFile(store.metadata),
                                                  !.documents = CorruptFile]
      [] OTHER                     -> save_database(store, dsk)

\* What the caller of save_database sees of a failure: the handler at the
\* end of save_database prints the exception and returns normally.
save_database_raises(point) == FALSE

\* The artifacts load_database cannot read.
unreadable(dsk) ==
    {a \in {"index", "metadata", "documents"} : dsk[a].exists /\ dsk[a].corrupt}

\* load_database whose handler leaves what was read before the failure.
load_database_keeps_read(dsk) ==
    [index     |-> IF dsk.index.exists /\ ~dsk.index.corrupt
                   THEN dsk.index.data ELSE <<>>,
     metadata  |-> IF dsk.metadata.exists /\ ~dsk.metadata.corrupt
                      /\ ~dsk.index.corrupt
                   THEN dsk.metadata.data ELSE <<>>,
     documents |-> IF dsk.documents.exists /\ unreadable(dsk) = {}
                   THEN dsk.documents.data ELSE <<>>]

\* FAISSManager.__init__ followed by load_database: every artifact that
\* exists replaces the empty structure of the fresh instance; an artifact
\* that cannot be read raises, and the handler empties all three.
load_database(dsk) ==
    IF unreadable(dsk) # {}
    THEN [index |-> <<>>, metadata |-> <<>>, documents |-> <<>>]
    ELSE [index     |-> IF dsk.index.exists THEN dsk.index.data ELSE <<>>,
          metadata  |-> IF dsk.metadata.exists THEN dsk.metadata.data ELSE <<>>,
          documents |-> IF dsk.documents.exists THEN dsk.documents.data ELSE <<>>]

\* FAISSManager.clear_database: the three artifacts are removed.
remove_artifacts(dsk) ==
    [dsk EXCEPT !.index = NoFile, !.metadata = NoFile, !.documents = NoFile]

--------------------------------------------------------------------------
(* Spec: the document manager (upload_document.py) over the pipeline *)

\* What process_file returned, with the store as it was when it was called,
\* the number of embedding failures add_document absorbed during the call
\* and whether the registry held the file's fingerprint at the call.
ProcessFileResult(f, ret, c) ==
    [op |-> "process_file", path |-> f, ret |-> ret, base |-> c.base,
     failed |-> c.failed, known |-> c.known, caller |-> c.caller]

\* The registry records f with the fingerprint f has now.
known_file(reg, files, f) == ~needs_processing(reg, f, get_file_hash(files, f))

\* process_file(f) up to its loop.  Without text it returns False at once;
\* otherwise its chunks are added one at a time by AddChunk.
\* caller is "scan" or "single".
EnterProcessFile(f, caller) ==
    LET c == fs[f]
        text == IF supported(f) THEN TextOf[c] ELSE <<>>
        new == [path |-> f, caller |-> caller, src |-> c,
                n |-> Len(ChunksOf[c]), i |-> 0, failed |-> 0,
                known |-> known_file(processed_files, fs, f), base |-> Store]
    IN  IF text = <<>>
        THEN /\ res' = ProcessFileResult(f, FALSE, new)
             /\ cur' = NoCur
             /\ IF caller = "scan"
                THEN /\ pc' = "scan"
                     /\ scan' = [scan EXCEPT !.todo = @ \ {f},
                                             !.invoked = @ \cup {f},
                                             !.errored = @ \cup {f}]
                ELSE /\ pc' = "menu"
                     /\ scan' = scan
        ELSE /\ res' = [op |-> "running"]
             /\ cur' = new
             /\ pc' = "pf"
             /\ scan' = IF caller = "scan"
                        THEN [scan EXCEPT !.todo = @ \ {f},
                                          !.invoked = @ \cup {f}]
                        ELSE scan

\* scan_and_process_documents, called where the program is at `at`: os.walk
\* lists the files.
ScanBeginFrom(at) ==
    /\ pc = at
    /\ pc' = "scan"
    /\ scan' = [todo |-> walk(fs), count |-> 0, invoked |-> {},
                errored |-> {}, base |-> Len(index), disk |-> disk]
    /\ res' = [op |-> "running"]
    /\ UNCHANGED <<chunkVars, storeVars, fs, processed_files, disk, cur,
                   calm, saved, budget>>

\* The menu calls scan_and_process_documents.
ScanBegin == ScanBeginFrom("menu")

\* One file of the walk: its fingerprint is compared with the registry and
\* process_file is called when they differ.
ScanFile ==
    /\ pc = "scan"
    /\ \E f \in walk_next(scan.todo) :
        IF needs_processing(processed_files, f, get_file_hash(fs, f))
        THEN EnterProcessFile(f, "scan")
        ELSE /\ scan' = [scan EXCEPT !.todo = @ \ {f}]
             /\ UNCHANGED <<pc, cur, res>>
    /\ UNCHANGED <<chunkVars, storeVars, fs, processed_files, disk,
                   calm, saved, budget>>

\* One turn of the loop of process_file: add_document for chunk cur.i.
AddChunk ==
    /\ pc = "pf"
    /\ cur.i < cur.n
    /\ \E emb \in ChunkEmbedOutcomes(ChunkRef(cur.src, cur.i)) :
        LET md  == chunk_metadata(extract_metadata_from_path(cur.path),
                                  cur.i, cur.n)
            new == add_document(Store, ChunkRef(cur.src, cur.i), md, emb)
        IN  /\ index' = new.index
            /\ metadata' = new.metadata
            /\ documents' = new.documents
            /\ cur' = [cur EXCEPT !.i = @ + 1,
                                  !.failed = @ + (IF emb.ok THEN 0 ELSE 1)]
    /\ UNCHANGED <<chunkVars, res, fs, processed_files, disk, pc, scan,
                   calm, saved, budget>>

\* The end of process_file: the fingerprint the file has now is recorded and
\* True is returned.  The scan counts the file; add_single_document saves.
FinishProcessFile ==
    /\ pc = "pf"
    /\ cur.i = cur.n
    /\ processed_files' =
            register(processed_files, cur.path, get_file_hash(fs, cur.path))
    /\ res' = ProcessFileResult(cur.path, TRUE, cur)
    /\ IF cur.caller = "scan"
       THEN /\ pc' = "scan"
            /\ scan' = [scan EXCEPT !.count = @ + 1,
                                    !.errored = IF cur.failed > 0
                                                THEN @ \cup {cur.path} ELSE @]
       ELSE /\ pc' = "save_registry"
            /\ scan' = scan
    /\ cur' = [NoCur EXCEPT !.caller = cur.caller]
    /\ UNCHANGED <<chunkVars, storeVars, fs, disk, calm, saved, budget>>

\* What scan_and_process_documents returns, with what it did on the way.
\* second: the scan followed another one with no file change since that one
\* began.
ScanResult ==
    [op |-> "scan", ret |-> scan.count, invoked |-> scan.invoked,
     errored |-> scan.errored, added |-> Len(index) - scan.base,
     second |-> (calm = 1), after_clear |-> (calm >= 2),
     registry_reset |-> (calm = 3)]

\* calm once a scan has returned: -1 tells of a change during the scan.
CalmAfterScan == IF calm < 0 THEN 0 ELSE 1

\* The walk is over: nothing is saved when no file was processed, and the
\* scan returns to its caller at `back`.
ScanFinishTo(back) ==
    /\ pc = "scan"
    /\ scan.todo = {}
    /\ IF scan.count > 0
       THEN /\ pc' = "save_registry"
            /\ cur' = [NoCur EXCEPT !.caller = "scan"]
            /\ UNCHANGED <<res, scan, calm>>
       ELSE /\ pc' = back
            /\ res' = ScanResult
            /\ scan' = NoScan
            /\ calm' = CalmAfterScan
            /\ cur' = NoCur
    /\ UNCHANGED <<chunkVars, storeVars, fs, processed_files, disk, saved,
                   budget>>

ScanFinish == ScanFinishTo("menu")

\* save_processed_files(), of the scan or of add_single_document.
SaveRegistry ==
    /\ pc = "save_registry"
    /\ disk' = save_processed_files(processed_files, disk)
    /\ pc' = "save_database"
    /\ UNCHANGED <<chunkVars, storeVars, res, fs, processed_files, cur, scan,
                   calm, saved, budget>>

\* faiss_manager.save_database(), after which the caller returns to `back`.
SaveDatabaseTo(back) ==
    /\ pc = "save_database"
    /\ disk' = save_database(Store, disk)
    /\ saved' = [valid |-> TRUE, store |-> Store]
    /\ pc' = back
    /\ cur' = NoCur
    /\ scan' = NoScan
    /\ IF cur.caller = "scan"
       THEN /\ res' = ScanResult
            /\ calm' = CalmAfterScan
       ELSE /\ res' = [op |-> "add_single_document"]
            /\ calm' = 0
    /\ UNCHANGED <<chunkVars, storeVars, fs, processed_files, budget>>

SaveDatabase == SaveDatabaseTo("menu")

\* The paths the user enters in add_single_document: a file of the documents
\* folder and one outside it.
Uploads == {PathB, PathC}

\* add_single_document(file_path) for an existing file of a supported type:
\* process_file without a look at the registry.
AddSingle ==
    /\ pc = "menu"
    /\ budget.single > 0
    /\ \E f \in Uploads :
        /\ fs[f] # Absent
        /\ supported(f)
        /\ EnterProcessFile(f, "single")
    /\ budget' = [budget EXCEPT !.single = @ - 1]
    /\ calm' = 0
    /\ UNCHANGED <<chunkVars, storeVars, fs, processed_files, disk, saved>>

\* clear_database of the document manager, first step:
\* FAISSManager.clear_database empties the store and removes the three
\* artifacts.  It does not touch the registry.
ClearDatabase ==
    /\ pc = "menu"
    /\ index' = <<>>
    /\ metadata' = <<>>
    /\ documents' = <<>>
    /\ disk' = remove_artifacts(disk)
    /\ saved' = NoSave
    /\ res' = [op |-> "clear_database"]
    /\ calm' = 2
    /\ pc' = "clear_registry"
    /\ UNCHANGED <<chunkVars, fs, processed_files, cur, scan, budget>>

\* processor.processed_files = {}
cleared_registry(reg) == <<>>

\* clear_database of the document manager, second step: the registry is
\* emptied and saved.
ResetRegistry ==
    /\ pc = "clear_registry"
    /\ processed_files' = cleared_registry(processed_files)
    /\ disk' = save_processed_files(cleared_registry(processed_files), disk)
    /\ calm' = 3
    /\ pc' = "menu"
    /\ UNCHANGED <<chunkVars, storeVars, res, fs, cur, scan, saved, budget>>

\* The program is left and started again: a fresh FAISSManager and a fresh
\* DocumentProcessor load what is on disk.  It is left from its menu, or
\* killed between the two steps of clear_database.
Restart ==
    /\ pc \in {"menu", "clear_registry"}
    /\ pc' = "menu"
    /\ LET new == load_database(disk)
       IN  /\ index' = new.index
           /\ metadata' = new.metadata
           /\ documents' = new.documents
    /\ processed_files' = load_processed_files(disk)
    /\ res' = [op |-> "load_database"]
    /\ calm' = IF calm >= 2 THEN calm ELSE 0
    /\ UNCHANGED <<chunkVars, fs, disk, cur, scan, saved, budget>>

\* The process is killed in a scan after save_processed_files has returned
\* and before save_database has written anything, and started again: the
\* new process loads what is on disk.  The result keeps the registry and
\* the number of entries the scan had added in memory.
KillBetweenSaves ==
    /\ pc = "save_database"
    /\ cur.caller = "scan"
    /\ pc' = "menu"
    /\ LET new == load_database(disk)
       IN  /\ index' = new.index
           /\ metadata' = new.metadata
           /\ documents' = new.documents
    /\ processed_files' = load_processed_files(disk)
    /\ res' = [op |-> "restart_between_saves", registry |-> processed_files,
               base |-> scan.base, added |-> Len(index) - scan.base]
    /\ cur' = NoCur
    /\ scan' = NoScan
    /\ calm' = 0
    /\ UNCHANGED <<chunkVars, fs, disk, saved, budget>>

\* The contents a path of the model takes: the file under the nested folder
\* is rewritten between one and two chunks, the file directly under the root
\* comes, goes and can be unreadable, the file outside the folder comes and
\* goes.
FileStatesOf(f) ==
    CASE f = PathA -> {"one", "two"}
      [] f = PathB -> {Absent, "bad", "one"}
      [] OTHER     -> {Absent, "one"}

\* Somebody adds, replaces or removes a file, at any moment.  A change is
\* interleaved only where a later step of the running operation reads the
\* file: during a scan that is a file still to be visited, during
\* process_file the file in hand, whose fingerprint is read last.  Any other
\* change during an operation is the same change right after it.  res tells
\* of the operation that has just returned: not after a change.
FsChange ==
    /\ budget.fs > 0
    /\ \/ pc \in {"menu", "scan"}
       \/ pc = "pf" /\ cur.i = cur.n
    /\ \E f \in (CASE pc = "pf"   -> {cur.path}
                  [] pc = "scan" -> scan.todo
                  [] OTHER       -> Paths) :
       \E c \in FileStatesOf(f) :
        /\ c # fs[f]
        /\ fs' = [fs EXCEPT ![f] = c]
    /\ budget' = [budget EXCEPT !.fs = @ - 1]
    /\ calm' = IF pc = "menu" THEN 0 ELSE -1
    /\ res' = IF pc = "menu" THEN NoRes ELSE res
    /\ UNCHANGED <<chunkVars, storeVars, processed_files, disk, pc, cur,
                   scan, saved>>

\* The files found at the first start: the two-chunk text under the nested
\* folder, either kind of file under the root and possibly a file outside
\* the folder.  FsChange leads to the others.
Corpora ==
    {[p \in Paths |-> CASE p = PathA -> "two"
                        [] p = PathB -> b
                        [] OTHER     -> c] :
        b \in {"bad", "one"}, c \in {Absent, "one"}}

\* A first start: no artifact on disk.
Init ==
    /\ cin = NoCall
    /\ cout = NotYet
    /\ res = NoRes
    /\ index = <<>>
    /\ metadata = <<>>
    /\ documents = <<>>
    /\ fs \in Corpora
    /\ processed_files = <<>>
    /\ disk = EmptyDisk
    /\ pc = "menu"
    /\ cur = NoCur
    /\ scan = NoScan
    /\ calm = 0
    /\ saved = NoSave
    /\ budget = [fs |-> MaxFsChanges, single |-> MaxSingleAdds, save |-> 0, watch |-> 0]

Next ==
    \/ ScanBegin
    \/ ScanFile
    \/ AddChunk
    \/ FinishProcessFile
    \/ ScanFinish
    \/ SaveRegistry
    \/ SaveDatabase
    \/ AddSingle
    \/ ClearDatabase
    \/ ResetRegistry
    \/ Restart
    \/ KillBetweenSaves
    \/ FsChange

Spec == Init /\ [][Next]_vars

--------------------------------------------------------------------------
(* Claims about the pipeline, under Spec *)

\* A scan has just returned that followed another scan with no change of the
\* file system since the first one began.
SecondScanReturned == res.op = "scan" /\ res.second

\* C6 (as stated): the second of two scans in succession, with no file system
\* change, calls process_file for no file, returns 0 and adds no entry to the
\* index, whatever failed in the first scan.
C6_SecondScanProcessesNothing ==
    SecondScanReturned =>
        /\ res.invoked = {}
        /\ res.ret = 0
        /\ res.added = 0

\* C6 (amended): the second of two scans in succession, with no file system
\* change, returns 0 and adds no entry to the index; it calls process_file
\* again exactly for the files the first scan could extract no text from,
\* which the registry does not record with their fingerprint.
C6_SecondScanAddsNothing ==
    SecondScanReturned =>
        /\ res.ret = 0
        /\ res.added = 0
        /\ res.invoked =
              {f \in walk(fs) :
                  needs_processing(processed_files, f, get_file_hash(fs, f))}
        /\ \A f \in res.invoked : TextOf[fs[f]] = <<>>

\* A second scan over a corpus of which the first scan has indexed and
\* recorded one file and failed on another.
C6_Witness ==
    /\ SecondScanReturned
    /\ res.invoked # {}
    /\ DOMAIN processed_files # {}
    /\ Len(index) > 0

\* The results search can give on a store, for a query and top_k.
SearchResults(store, q, k) ==
    {search(store, q, k, DefaultThreshold, r) :
        r \in FaissSearches(store.index, q, k)}

\* C7: a fresh load after a completed save reproduces the store that was
\* saved: the same vectors, the same metadata sequence and the same text
\* sequence, position by position, so every search gives the same results.
C7_SaveLoadRoundTrip ==
    (res.op = "load_database" /\ saved.valid) =>
        /\ Lens(Store) = Lens(saved.store)
        /\ metadata = saved.store.metadata
        /\ documents = saved.store.documents
        /\ index = saved.store.index
        /\ \A q \in Topics, k \in 1..2 :
              SearchResults(Store, q, k) = SearchResults(saved.store, q, k)

\* A load of a saved store of at least two entries.
C7_Witness ==
    /\ res.op = "load_database"
    /\ saved.valid
    /\ Len(saved.store.index) >= 2
    /\ Len(index) >= 2

\* C10: process_file returns true if and only if the call added at least one
\* entry to the index, and after a false return the index holds exactly what
\* it held before the call, whatever the embedding step did.
C10_TrueIffAdded ==
    res.op = "process_file" =>
        /\ res.ret <=> (Len(index) > Len(res.base.index))
        /\ ~res.ret => Store = res.base

\* The half of C10 the code keeps: a false return means nothing was added.
FalseMeansNothingAdded ==
    (res.op = "process_file" /\ ~res.ret) => Store = res.base

--------------------------------------------------------------------------
(* The shape of the answer of search_by_topic, under SpecIndex *)

\* The ids of the matches of both passes, before the sort and the cut.
MatchedIds ==
    {metadata[i].id : i \in {j \in 1..Len(metadata) : metadata_hit(Store, res.query, j)}}
    \cup {res.out.content_matches[k].metadata.id :
            k \in 1..Len(res.out.content_matches)}

\* C18: matches holds at most top_k entries in non-increasing similarity, no
\* two of them of the same file-level id; total_found is the number of
\* distinct ids among the matches of both passes and is at least the length
\* of matches.
C18_MatchesCutSortedUnique ==
    res.op = "search_by_topic" =>
        LET m == res.out.matches
        IN  /\ Len(m) <= res.top_k
            /\ \A i, j \in 1..Len(m) :
                  i < j => /\ m[i].similarity >= m[j].similarity
                           /\ m[i].metadata.id # m[j].metadata.id
            /\ res.out.total_found = Cardinality(MatchedIds)
            /\ res.out.total_found >= Len(m)

\* An answer where both passes matched, one id was matched twice and the
\* cut to top_k dropped an entry.
C18_Witness ==
    /\ res.op = "search_by_topic"
    /\ res.out.has_exact_match
    /\ Len(res.out.content_matches) > 0
    /\ res.out.total_found > Len(res.out.matches)
    /\ \E k \in 1..Len(res.out.content_matches) :
          metadata_hit(Store, res.query, res.out.content_matches[k].pos)
    /\ \E i, j \in 1..Len(res.out.matches) :
          res.out.matches[i].similarity > res.out.matches[j].similarity

--------------------------------------------------------------------------
(* Claims about errors and re-ingestion, under Spec *)

\* The entries the scan that has just returned appended for file f.
AddedBy(f) ==
    {i \in (Len(metadata) - res.added + 1)..Len(metadata) :
        metadata[i].file_path = f}

\* C11: an embedding failure during add_document reaches the caller of
\* process_file: the call in which it happens stops at that chunk and does
\* not return True as if the chunk had been stored.
C11_EmbeddingErrorPropagates ==
    (res.op = "process_file" /\ res.failed > 0) =>
        /\ ~res.ret
        /\ res.failed = 1

\* C12: in a scan, a file whose processing errors (no text extracted, or an
\* embedding failure) contributes no entry to the index and is not recorded
\* in the registry with its fingerprint, so that the next scan tries it again.
C12_ErroredFileRetried ==
    res.op = "scan" =>
        \A f \in res.errored :
            /\ AddedBy(f) = {}
            /\ needs_processing(processed_files, f, get_file_hash(fs, f))

\* C13: process_file called on a file whose current fingerprint equals its
\* registry entry skips the file: it adds no entry and returns false.
C13_KnownFileSkipped ==
    (res.op = "process_file" /\ res.known) =>
        /\ ~res.ret
        /\ Store = res.base

\* Every chunk of every file under the documents folder that has text is in
\* the index.
AllChunksIndexed ==
    \A f \in walk(fs) :
        \A k \in 0..(Len(ChunksOf[fs[f]]) - 1) :
            \E i \in 1..Len(metadata) :
                /\ i <= Len(documents)
                /\ metadata[i].file_path = f
                /\ metadata[i].chunk_id = k
                /\ documents[i] = ChunkRef(fs[f], k)

\* A scan has just returned that followed FAISSManager.clear_database with
\* no file changed since, and in which no embedding failed.
ScanAfterClear ==
    /\ res.op = "scan"
    /\ res.after_clear
    /\ \A f \in res.errored : TextOf[fs[f]] = <<>>

\* C14: clear followed by a scan over the unchanged corpus is a full rebuild:
\* every supported file under the root that has text has all its chunks in
\* the index again.
C14_ClearThenScanRebuilds == ScanAfterClear => AllChunksIndexed

\* What the code keeps of C14: the rebuild is full when the registry was
\* emptied as well, as the whole clear_database of the document manager does.
RegistryResetThenScanRebuilds ==
    (ScanAfterClear /\ res.registry_reset) => AllChunksIndexed


\* The scan is between its first and its last file.
ScanProcessing ==
    \/ pc = "scan"
    \/ pc = "pf" /\ cur.caller = "scan"

\* C20: while a scan processes its files the artifacts on disk are what they
\* were when the scan began, and the scan returns the number of files for
\* which at least one entry was added to the index.
C20_SavesOnceCountsIngested ==
    /\ ScanProcessing => disk = scan.disk
    /\ res.op = "scan" =>
          res.ret = Cardinality({f \in res.invoked : AddedBy(f) # {}})

\* What the code keeps of C20: nothing is written before the walk is over.
ScanSavesAtEndOnly == ScanProcessing => disk = scan.disk

--------------------------------------------------------------------------
(* SpecStorage: one FAISSManager and its three artifacts on disk *)

\* The entry add_document is called with when the store holds n entries: the
\* three documents in turn, the first below the topic threshold, the second
\* above it, the third at it.
StorageInputs ==
    <<[content |-> <<2>>,
       md  |-> chunk_metadata(extract_metadata_from_path(PathB), 0, 1),
       vec |-> [q \in Topics |-> 59]],
      [content |-> <<1>>,
       md  |-> chunk_metadata(extract_metadata_from_path(PathA), 0, 1),
       vec |-> [q \in Topics |-> 97]],
      [content |-> <<1, SP, 2>>,
       md  |-> chunk_metadata(extract_metadata_from_path(PathC), 0, 1),
       vec |-> [q \in Topics |-> 60]]>>
StorageInput(n) == StorageInputs[(n % 3) + 1]

\* self.add_document(content, metadata) on a store whose embedding succeeds.
StorageAdd ==
    /\ res.op = "none"
    /\ Len(index) < MaxStore
    /\ Len(metadata) < MaxStore
    /\ Len(documents) < MaxStore
    /\ LET inp == StorageInput(Len(index))
           new == add_document(Store, inp.content, inp.md,
                               [ok |-> TRUE, vec |-> inp.vec])
       IN  /\ index' = new.index
           /\ metadata' = new.metadata
           /\ documents' = new.documents
    /\ res' = [op |-> "add", ok |-> TRUE, before |-> Lens(Store)]
    /\ UNCHANGED <<chunkVars, pipeVars>>

\* search_by_topic(topic, top_k) with the greatest top_k of the model.
StorageSearchByTopic ==
    /\ res.op = "none"
    /\ \E q \in Topics :
       \E r \in FaissSearches(index, q, MaxTopK) :
        /\ res' = [op |-> "search_by_topic", query |-> q, top_k |-> MaxTopK,
                   out |-> search_by_topic(Store, q, MaxTopK, r)]
        /\ UNCHANGED <<chunkVars, storeVars, pipeVars>>

ArtifactsOf(dsk) ==
    [index |-> dsk.index, metadata |-> dsk.metadata, documents |-> dsk.documents]

\* self.save_database(), at any of the places where it can fail or at none.
\* The result records whether the caller saw an exception and whether the
\* three artifacts are what they were before the call.
StorageSave ==
    /\ res.op = "none"
    /\ \E point \in (IF budget.save > 0 THEN SaveFailures ELSE {}) \cup {"none"} :
        /\ disk' = save_database_failing(Store, disk, point)
        /\ res' = [op |-> "save_database", point |-> point,
                   raised |-> save_database_raises(point),
                   intact |-> (ArtifactsOf(disk') = ArtifactsOf(disk))]
        /\ budget' = [budget EXCEPT !.save = IF point = "none" THEN @ ELSE @ - 1]
    /\ UNCHANGED <<chunkVars, storeVars, fs, processed_files, pc, cur, scan,
                   calm, saved>>

\* FAISSManager(): a new instance over the artifacts on disk.
StorageLoad ==
    /\ res.op = "none"
    /\ LET new == load_database(disk)
       IN  /\ index' = new.index
           /\ metadata' = new.metadata
           /\ documents' = new.documents
    /\ res' = [op |-> "load_database"]
    /\ UNCHANGED <<chunkVars, pipeVars>>

\* The loop of clear_database stopped by a failing os.remove after n of the
\* three artifacts: faiss.index, metadata.pkl, documents.pkl in this order.
remove_artifacts_upto(dsk, n) ==
    [dsk EXCEPT !.index     = IF n >= 1 THEN NoFile ELSE @,
                !.metadata  = IF n >= 2 THEN NoFile ELSE @,
                !.documents = IF n >= 3 THEN NoFile ELSE @]

\* self.clear_database(): the memory is emptied, then the artifacts are
\* removed one by one; a removal that fails ends the loop and is printed.
StorageClear ==
    /\ res.op = "none"
    /\ index' = <<>>
    /\ metadata' = <<>>
    /\ documents' = <<>>
    /\ \E n \in (IF budget.save > 0 THEN 0..2 ELSE {}) \cup {3} :
        /\ disk' = remove_artifacts_upto(disk, n)
        /\ budget' = [budget EXCEPT !.save = IF n = 3 THEN @ ELSE @ - 1]
        /\ res' = [op |-> "clear_database", removed |-> n]
    /\ UNCHANGED <<chunkVars, fs, processed_files, pc, cur, scan, calm, saved>>

InitStorage ==
    /\ cin = NoCall
    /\ cout = NotYet
    /\ index = <<>>
    /\ metadata = <<>>
    /\ documents = <<>>
    /\ res = NoRes
    /\ fs = <<>>
    /\ processed_files = <<>>
    /\ disk = EmptyDisk
    /\ pc = "menu"
    /\ cur = NoCur
    /\ scan = NoScan
    /\ calm = 0
    /\ saved = NoSave
    /\ budget = [fs |-> 0, single |-> 0, save |-> MaxSaveFailures, watch |-> 0]

NextStorage ==
    \/ StorageAdd
    \/ StorageSave
    \/ StorageLoad
    \/ StorageClear
    \/ StorageSearchByTopic
    \/ Return

SpecStorage == InitStorage /\ [][NextStorage]_vars

--------------------------------------------------------------------------
(* Claims about persistence failures, under SpecStorage *)

\* C15: a save that fails is reported to its caller as an I/O error and
\* leaves the artifacts on disk as they were before the call.
C15_SaveFailurePropagates ==
    (res.op = "save_database" /\ res.point # "none") =>
        /\ res.raised
        /\ res.intact

\* What the code keeps of C15: a save that does not fail leaves on disk
\* exactly the store in memory.
SaveWritesStore ==
    (res.op = "save_database" /\ res.point = "none") =>
        load_database(disk) = Store

\* The store on disk is missing: none of the three artifacts exists.
missing_store(dsk) ==
    ~dsk.index.exists /\ ~dsk.metadata.exists /\ ~dsk.documents.exists

\* C16: a load over a missing store yields the empty store, and a load over
\* a store with an artifact that cannot be read yields the empty store as
\* well, whatever the other artifacts hold.
C16_LoadMissingOrCorruptIsEmpty ==
    (res.op = "load_database" /\ (missing_store(disk) \/ unreadable(disk) # {}))
        => Store = EmptyStore

\* A load has met an unreadable artifact next to readable ones that hold
\* entries.
C16_Witness ==
    /\ res.op = "load_database"
    /\ unreadable(disk) # {}
    /\ \E a \in {"index", "metadata"} :
        disk[a].exists /\ ~disk[a].corrupt /\ Len(disk[a].data) > 0
    /\ Store = EmptyStore

\* C17: has_exact_match is true exactly when the title or the topics of
\* some stored entry contain the topic as a substring, in whatever state
\* the store is.
C17_ExactMatchIffMetadataHit ==
    res.op = "search_by_topic" =>
        (res.out.has_exact_match <=>
            \E i \in 1..Len(metadata) : metadata_hit(Store, res.query, i))


--------------------------------------------------------------------------
(* SpecWatch: the document manager in monitor_folder *)

\* The menu calls monitor_folder: the program is at the head of the loop.
MonitorFolder ==
    /\ pc = "menu"
    /\ budget.watch > 0
    /\ budget' = [budget EXCEPT !.watch = @ - 1]
    /\ pc' = "watch"
    /\ res' = [op |-> "running"]
    /\ UNCHANGED <<chunkVars, storeVars, fs, processed_files, disk, cur, scan,
                   calm, saved>>

\* while True: self.scan_and_process_documents(); time.sleep(check_interval)
WatchScanBegin  == ScanBeginFrom("watch")
WatchScanFinish == ScanFinishTo("watch")
WatchSaveDatabase == SaveDatabaseTo("watch")

\* A file comes, goes or is rewritten while the loop sleeps.
WatchFsChange ==
    /\ pc = "watch"
    /\ budget.fs > 0
    /\ \E f \in Paths : \E c \in FileStatesOf(f) :
        /\ c # fs[f]
        /\ fs' = [fs EXCEPT ![f] = c]
    /\ budget' = [budget EXCEPT !.fs = @ - 1]
    /\ calm' = 0
    /\ UNCHANGED <<chunkVars, storeVars, res, processed_files, disk, pc, cur,
                   scan, saved>>

\* Where KeyboardInterrupt can be raised: anywhere between the call of
\* monitor_folder and its return.
WatchPoints == {"watch", "scan", "pf", "save_registry", "save_database"}

\* Ctrl+C.  KeyboardInterrupt is no Exception, so neither process_file nor
\* add_document catches it: it unwinds whatever runs up to the handler of
\* monitor_folder, which prints and returns to the menu.  The result tells
\* where the program was and which files of the walk were not finished.
Interrupt ==
    /\ pc \in WatchPoints
    /\ pc' = "menu"
    /\ res' = [op |-> "monitor_folder", in_scan |-> (pc # "watch"),
               unfinished |-> scan.todo \cup (IF pc = "pf" THEN {cur.path} ELSE {})]
    /\ cur' = NoCur
    /\ scan' = NoScan
    /\ calm' = 0
    /\ UNCHANGED <<chunkVars, storeVars, fs, processed_files, disk, saved,
                   budget>>

\* monitor_folder is the first thing the user starts.
InitWatch ==
    /\ cin = NoCall
    /\ cout = NotYet
    /\ res = NoRes
    /\ index = <<>>
    /\ metadata = <<>>
    /\ documents = <<>>
    /\ fs \in Corpora
    /\ processed_files = <<>>
    /\ disk = EmptyDisk
    /\ pc = "menu"
    /\ cur = NoCur
    /\ scan = NoScan
    /\ calm = 0
    /\ saved = NoSave
    /\ budget = [fs |-> MaxFsChanges, single |-> 0, save |-> 0, watch |-> MaxWatches]

NextWatch ==
    \/ MonitorFolder
    \/ WatchScanBegin
    \/ ScanFile
    \/ AddChunk
    \/ FinishProcessFile
    \/ WatchScanFinish
    \/ SaveRegistry
    \/ WatchSaveDatabase
    \/ WatchFsChange
    \/ Interrupt

SpecWatch == InitWatch /\ [][NextWatch]_vars

\* What is on disk is what is in memory.
Persisted ==
    /\ load_database(disk) = Store
    /\ load_processed_files(disk) = processed_files

\* C19: monitor_folder stops at an iteration boundary only: when it has
\* returned, no scan was cut short, every file of the walk was finished and
\* the registry and the index are on disk.
C19_StopOnlyBetweenScans ==
    res.op = "monitor_folder" =>
        /\ ~res.in_scan
        /\ res.unfinished = {}
        /\ Persisted


--------------------------------------------------------------------------
(* The metadata skeleton of a stored entry, under SpecIndex *)

\* The directory segments of a path between the documents root and the file
\* name, in order; none for a path outside the root.
DirSegments(file_path) ==
    LET ps    == parts(file_path)
        found == {i \in 1..Len(ps) : ps[i] = documents_dir}
        root  == IF found = {} THEN 0
                 ELSE CHOOSE i \in found : \A j \in found : i <= j
    IN  IF root = 0 THEN <<>> ELSE SubSeq(ps, root + 1, Len(ps) - 1)

\* C21: the topics of every stored entry are exactly the directory segments
\* between the root and the file name, course is the first of them and
\* chapter the second, each "General" when there is no such segment; the
\* file name is never the course or the chapter.
C21_MetadataFromDirectories ==
    \A i \in 1..Len(metadata) :
        LET md   == metadata[i]
            dirs == DirSegments(md.file_path)
            name == parts(md.file_path)[Len(parts(md.file_path))]
        IN  /\ md.topics = dirs
            /\ md.course = IF Len(dirs) >= 1 THEN dirs[1] ELSE General
            /\ md.chapter = IF Len(dirs) >= 2 THEN dirs[2] ELSE General
            /\ md.course # name
            /\ md.chapter # name

\* What the code keeps of C21: the topics are the directory segments with
\* every underscore turned into a blank, and a path outside the root has
\* course and chapter "General" and no topic.
TopicsAreDirectories ==
    \A i \in 1..Len(metadata) :
        LET md   == metadata[i]
            dirs == DirSegments(md.file_path)
        IN  /\ md.topics = [k \in 1..Len(dirs) |-> replace_underscore(dirs[k])]
            /\ documents_dir \notin {parts(md.file_path)[k] :
                                        k \in 1..Len(parts(md.file_path))}
                  => md.course = General /\ md.chapter = General


--------------------------------------------------------------------------
(* The store between resets, under Spec *)

\* a is the beginning of b.
IsPrefix(a, b) == Len(a) <= Len(b) /\ SubSeq(b, 1, Len(a)) = a

\* The step is FAISSManager.clear_database, or the start of a new process
\* that loads the store from disk (after an exit or after a kill).
ResetStep ==
    \/ pc' = "clear_registry"
    \/ res'.op \in {"load_database", "restart_between_saves"}

\* C22: the index is append-only between resets: every step that is not a
\* clear (or a new start) leaves every entry at its position with its
\* vector, text and metadata, so the count never decreases.
C22_AppendOnly ==
    [][~ResetStep => /\ IsPrefix(index, index')
                     /\ IsPrefix(metadata, metadata')
                     /\ IsPrefix(documents, documents')]_vars

\* A changed file has been ingested again: the store holds the same chunk
\* of the same file twice, the earlier version before the later one.
C22_Witness ==
    /\ res.op \in {"scan", "add_single_document"}
    /\ \E i, j \in 1..Len(metadata) :
        /\ i < j
        /\ metadata[i].file_path = metadata[j].file_path
        /\ metadata[i].chunk_id = metadata[j].chunk_id
        /\ documents[i] # documents[j]


--------------------------------------------------------------------------
(* A scan killed between its two writes, under Spec *)

\* The paths the store holds an entry for.
IndexedFiles == {metadata[i].file_path : i \in 1..Len(metadata)}

\* C23: after a kill between the registry write and the index write of a
\* scan and a new start, the registry and the index can disagree.  With the
\* order the code writes in, the loaded registry is the whole registry of
\* the killed scan while the loaded index holds none of the entries that
\* scan added; no indexed file lacks its registry line.
C23_KilledScanLeavesRegistryAhead ==
    res.op = "restart_between_saves" =>
        /\ processed_files = res.registry
        /\ Len(index) = res.base
        /\ IndexedFiles \subseteq DOMAIN processed_files

\* After such a kill a file is recorded as processed and none of its chunks
\* is in the loaded index, although the killed scan had added entries.
C23_Witness ==
    /\ res.op = "restart_between_saves"
    /\ res.added > 0
    /\ \E f \in DOMAIN processed_files :
        /\ ChunksOf[fs[f]] # <<>>
        /\ f \notin IndexedFiles


--------------------------------------------------------------------------
(* The store a new process loads, under SpecStorage *)

\* C24: after a load from whatever is on disk, also what a save or a clear
\* that stopped half-way has left, the loaded store holds as many vectors
\* as texts as metadata records.
C24_LoadedStoreAligned ==
    res.op = "load_database" =>
        /\ Len(index) = Len(metadata)
        /\ Len(metadata) = Len(documents)


--------------------------------------------------------------------------
(* The registry against the index, under Spec *)

\* The store holds chunk k of the content c of file f as one of n.
HoldsChunk(f, c, k, n) ==
    \E i \in 1..Len(metadata) :
        /\ i <= Len(documents)
        /\ metadata[i].file_path = f
        /\ metadata[i].chunk_id = k
        /\ metadata[i].total_chunks = n
        /\ documents[i] = ChunkRef(c, k)

\* The content whose fingerprint is h is wholly in the store under path f.
VersionIndexed(f, h) ==
    \A c \in Contents :
        get_file_hash([p \in {f} |-> c], f) = h =>
            \A k \in 0..(Len(ChunksOf[c]) - 1) :
                HoldsChunk(f, c, k, Len(ChunksOf[c]))

\* C25: the registry entry of a file is written at the end of a successful
\* pass only: when process_file has just returned True, so that no clear
\* can have come since the entry was written, the index holds every chunk
\* of the version of the file whose fingerprint the registry maps the path
\* to.
C25_RegisteredMeansIndexed ==
    (res.op = "process_file" /\ res.ret) =>
        /\ res.path \in DOMAIN processed_files
        /\ VersionIndexed(res.path, processed_files[res.path])


--------------------------------------------------------------------------
(* The entries of one pass of process_file, under Spec *)

\* The positions of the entries the pass that has just returned appended.
PassEntries == (Len(res.base.metadata) + 1)..Len(metadata)

\* C26: the entries a pass of process_file over a file of n chunks appends
\* carry the position of their chunk as chunk_id and n as total_chunks,
\* share the id derived from the path of the file, and stand in increasing
\* chunk_id order; every stored entry has 0 <= chunk_id < total_chunks.
C26_ChunkNumbering ==
    /\ res.op = "process_file" =>
        /\ \A i \in PassEntries :
            /\ metadata[i].file_path = res.path
            /\ metadata[i].id = md5_8(res.path)
            /\ documents[i].k = metadata[i].chunk_id
            /\ metadata[i].total_chunks = Len(ChunksOf[documents[i].src])
        /\ \A i, j \in PassEntries :
            i < j => /\ metadata[i].chunk_id < metadata[j].chunk_id
                     /\ documents[i].src = documents[j].src
    /\ \A i \in 1..Len(metadata) :
        /\ 0 <= metadata[i].chunk_id
        /\ metadata[i].chunk_id < metadata[i].total_chunks

\* A pass over the two-chunk file has appended both chunks.
C26_Witness ==
    /\ res.op = "process_file"
    /\ res.ret
    /\ Len(metadata) - Len(res.base.metadata) = 2
    /\ metadata[Len(metadata)].chunk_id = 1


--------------------------------------------------------------------------
(* What a scan leaves on disk, under SpecWatch *)

\* C27: when a scan has returned, whatever it returned, the registry and
\* the store on disk are the registry and the store in memory: a new start
\* right after a scan loses nothing.
C27_ScanReturnPersisted ==
    res.op = "scan" => Persisted


--------------------------------------------------------------------------
(* SpecRegistry: processed_files.txt written and read back *)

\* A file whose name holds the separator of the registry lines.
PathBar == documents_dir \o <<"/", "a", "|", "b">> \o dot_pdf

\* The registries of the model: any of three paths, each with the
\* fingerprint of a content or with "", the fingerprint get_file_hash gives
\* for a file it cannot read.
RegistryPaths  == {PathB, PathC, PathBar}
RegistryHashes == {<<>>, <<"1">>, <<"2">>}
Registries ==
    UNION {[S -> RegistryHashes] : S \in SUBSET RegistryPaths}

\* self.save_processed_files()
RegistrySave ==
    /\ res.op = "none"
    /\ disk' = save_processed_files(processed_files, disk)
    /\ res' = [op |-> "save_processed_files", reg |-> processed_files]
    /\ UNCHANGED <<chunkVars, storeVars, fs, processed_files, pc, cur, scan,
                   calm, saved, budget>>

\* DocumentProcessor(): a new process reads the registry that was saved.
RegistryLoad ==
    /\ res.op = "save_processed_files"
    /\ processed_files' = load_processed_files(disk)
    /\ res' = [op |-> "load_processed_files", reg |-> res.reg]
    /\ UNCHANGED <<chunkVars, storeVars, fs, disk, pc, cur, scan, calm, saved,
                   budget>>

InitRegistry ==
    /\ cin = NoCall
    /\ cout = NotYet
    /\ index = <<>>
    /\ metadata = <<>>
    /\ documents = <<>>
    /\ res = NoRes
    /\ fs = <<>>
    /\ processed_files \in Registries
    /\ disk = EmptyDisk
    /\ pc = "menu"
    /\ cur = NoCur
    /\ scan = NoScan
    /\ calm = 0
    /\ saved = NoSave
    /\ budget = [fs |-> 0, single |-> 0, save |-> 0, watch |-> 0]

NextRegistry == RegistrySave \/ RegistryLoad

SpecRegistry == InitRegistry /\ [][NextRegistry]_vars

\* C28: the registry read back from processed_files.txt is the registry
\* that was saved, whatever its paths and fingerprints.
C28_RegistryRoundTrip ==
    res.op = "load_processed_files" => processed_files = res.reg

\* What the code keeps of C28: the round trip of a registry none of whose
\* paths holds a '|', empty fingerprints included.
RoundTripWithoutBar ==
    (res.op = "load_processed_files"
        /\ \A f \in DOMAIN res.reg : ~Contains(f, <<"|">>))
        => processed_files = res.reg


--------------------------------------------------------------------------
(* The files a topic search reaches, under SpecIndex *)

\* The ids of the files with a stored chunk at or above the topic threshold.
QualifyingIds(q) ==
    {metadata[i].id : i \in {j \in 1..Min(Len(index), Len(metadata)) :
                                ScoreAt(index, q, j) >= TopicThreshold}}

\* C29: when no entry matches the topic by its metadata and at most top_k
\* files have a chunk at or above 0.6, search_by_topic returns a match for
\* each of these files.
C29_EveryQualifyingFileReturned ==
    (/\ res.op = "search_by_topic"
     /\ ~\E i \in 1..Len(metadata) : metadata_hit(Store, res.query, i)
     /\ Cardinality(QualifyingIds(res.query)) <= res.top_k) =>
        \A id \in QualifyingIds(res.query) :
            \E a \in 1..Len(res.out.matches) : res.out.matches[a].metadata.id = id

\* What the code keeps of C29: when no more than top_k chunks are at or
\* above the threshold, every file that has one is returned.
FewChunksAllReturned ==
    (/\ res.op = "search_by_topic"
     /\ ~\E i \in 1..Len(metadata) : metadata_hit(Store, res.query, i)
     /\ Cardinality({j \in 1..Len(index) :
                        ScoreAt(index, res.query, j) >= TopicThreshold})
            <= res.top_k) =>
        \A id \in QualifyingIds(res.query) :
            \E a \in 1..Len(res.out.matches) : res.out.matches[a].metadata.id = id


--------------------------------------------------------------------------
(* The cover of a text by its chunks, under SpecChunk *)

\* The words of chunk k of the result, as a set.  The texts NumText(n) are
\* made of the distinct one-character words 1..n, so a word names its
\* position.
ChunkWords(k) ==
    LET ws == split(cout.chunks[k]) IN {ws[a] : a \in 1..Len(ws)}

\* chunk_text has returned for a text of distinct words and overlap < size.
ChunkedDistinct ==
    /\ cout.done
    /\ cin.overlap < cin.size
    /\ cin.text = NumText(Len(split(cin.text)))

\* C30: for overlap < size every word of the text lies in some chunk, each
\* chunk but the last has exactly size words, and two consecutive chunks
\* share exactly min(overlap, length of the later chunk) words.
C30_ChunksCoverText ==
    ChunkedDistinct =>
        LET n == Len(split(cin.text))
            m == Len(cout.chunks)
        IN  /\ \A w \in 1..n : \E k \in 1..m : <<w>> \in ChunkWords(k)
            /\ \A k \in 1..(m - 1) : Cardinality(ChunkWords(k)) = cin.size
            /\ \A k \in 1..(m - 1) :
                  Cardinality(ChunkWords(k) \cap ChunkWords(k + 1))
                      = Min(cin.overlap, Cardinality(ChunkWords(k + 1)))

\* What the code keeps of C30: the cover and the shared words.
ChunksCoverAndShare ==
    ChunkedDistinct =>
        LET n == Len(split(cin.text))
            m == Len(cout.chunks)
        IN  /\ \A w \in 1..n : \E k \in 1..m : <<w>> \in ChunkWords(k)
            /\ \A k \in 1..(m - 1) :
                  Cardinality(ChunkWords(k) \cap ChunkWords(k + 1))
                      = Min(cin.overlap, Cardinality(ChunkWords(k + 1)))

==========================================================================
